---- MODULE Spec2Model ----
(***************************************************************************)
(* Model of the two command-line utilities of the repository:              *)
(*   generate_changelog.py     (git log -> Markdown changelog)             *)
(*   build_research_report.py  (JSON sources -> Markdown report scaffold)  *)
(*                                                                         *)
(* A Python str is modelled as a sequence of tokens (Text); the tokens     *)
(* " " and "\n" are the whitespace the code strips, joins and splits on.   *)
(* A list of str is a sequence of Text.                                    *)
(***************************************************************************)
EXTENDS Integers, Sequences, FiniteSets, TLC

\* ------------------------------------------------------------------ bounds
MaxHist == 2
MaxSources == 2

\* --------------------------------------------------------------- constants
DefaultMax == 50

\* ------------------------------------------------------------ Python values
\* Python's None (also JSON null): a value that is no text an option carries.
None == <<"<None>">>
\* A key that a JSON object does not have.
Absent == <<"<absent>">>

SP == " "
NL == "\n"

\* Python truthiness of an Optional[str]: None and "" are false.
Truthy(s) == s # None /\ s # <<>>

IsSpace(t) == t = SP \/ t = NL

RECURSIVE LStrip(_)
LStrip(s) == IF s # <<>> /\ IsSpace(Head(s)) THEN LStrip(Tail(s)) ELSE s

RECURSIVE RStrip(_)
RStrip(s) ==
    IF s # <<>> /\ IsSpace(s[Len(s)]) THEN RStrip(SubSeq(s, 1, Len(s) - 1)) ELSE s

\* str.strip()
Strip(s) == LStrip(RStrip(s))

\* sep.join(parts), sep a single token
RECURSIVE Join(_, _)
Join(sep, parts) ==
    IF parts = <<>> THEN <<>>
    ELSE IF Len(parts) = 1 THEN parts[1]
    ELSE parts[1] \o <<sep>> \o Join(sep, Tail(parts))

\* str.split(sep), sep a single token: the pieces between the separators,
\* always at least one piece
FirstAt(s, sep) ==
    CHOOSE i \in 1..Len(s) : s[i] = sep /\ \A j \in 1..(i - 1) : s[j] # sep

RECURSIVE Split(_, _)
Split(s, sep) ==
    IF \A i \in 1..Len(s) : s[i] # sep THEN <<s>>
    ELSE <<SubSeq(s, 1, FirstAt(s, sep) - 1)>>
         \o Split(SubSeq(s, FirstAt(s, sep) + 1, Len(s)), sep)

\* str.splitlines(): no piece for the empty string, none after a final "\n"
SplitLines(s) ==
    IF s = <<>> THEN <<>>
    ELSE LET p == Split(s, NL)
         IN  IF p[Len(p)] = <<>> THEN SubSeq(p, 1, Len(p) - 1) ELSE p

\* [line.strip() for line in lines if line.strip()]
RECURSIVE StripNonBlank(_)
StripNonBlank(ls) ==
    IF ls = <<>> THEN <<>>
    ELSE IF Strip(Head(ls)) # <<>>
         THEN <<Strip(Head(ls))>> \o StripNonBlank(Tail(ls))
         ELSE StripNonBlank(Tail(ls))

SeqsUpTo(S, n) == UNION {[1..k -> S] : k \in 0..n}


\* ------------------------------------------------------ input domains
Refs == {None, <<>>, <<"v1.2.0">>}
UntilRefs == {None, <<>>, <<"v2.0.0">>}
Dates == {None, <<>>, <<"2026-01-01">>}
MaxValues == {-1, 0, 1, 2, DefaultMax}
OutPaths == {None, <<>>, <<"out.md">>}
LastTag == <<"v0.9">>

\* The commits the repository holds in the requested range, newest first.
Commits ==
    { [h |-> "a1f", s |-> <<"Fix", SP, "bug">>, merge |-> FALSE],
      [h |-> "b2e", s |-> <<>>, merge |-> FALSE],
      [h |-> "c3d", s |-> <<"Merge", SP, "branch">>, merge |-> TRUE] }

Histories ==
    {hs \in SeqsUpTo(Commits, MaxHist) :
        \A i, j \in 1..Len(hs) : hs[i] = hs[j] => i = j}

\* ------------------------------------------- generate_changelog.py: functions
\* mutant of build_range: tests `is not None` where the code tests truthiness
build_range_IsNotNone(since, until) ==
    IF since # None /\ until # None THEN since \o <<"..">> \o until
    ELSE IF since # None THEN since \o <<"..", "HEAD">>
    ELSE IF until # None THEN until
    ELSE None

build_range(since, until) ==
    IF Truthy(since) /\ Truthy(until) THEN since \o <<"..">> \o until
    ELSE IF Truthy(since) THEN since \o <<"..", "HEAD">>
    ELSE IF Truthy(until) THEN until
    ELSE None

NoMergesArg == <<"--no-merges">>
MaxCountArg(n) == <<"--max-count=", ToString(n)>>
PrettyArg == <<"--pretty=format:%h", SP, "%s">>

\* mutant of build_log_args: the include_merges test inverted
build_log_args_Inverted(range, since_date, max_count, include_merges) ==
    <<  <<"log">>  >>
    \o (IF Truthy(range) THEN <<range>> ELSE <<>>)
    \o (IF include_merges THEN <<NoMergesArg>> ELSE <<>>)
    \o << MaxCountArg(max_count) >>
    \o (IF Truthy(since_date) THEN << <<"--since">>, since_date >> ELSE <<>>)
    \o << PrettyArg >>

build_log_args(range, since_date, max_count, include_merges) ==
    <<  <<"log">>  >>
    \o (IF Truthy(range) THEN <<range>> ELSE <<>>)
    \o (IF ~include_merges THEN <<NoMergesArg>> ELSE <<>>)
    \o << MaxCountArg(max_count) >>
    \o (IF Truthy(since_date) THEN << <<"--since">>, since_date >> ELSE <<>>)
    \o << PrettyArg >>

NoCommitsLine == <<"-", SP, "(No", SP, "commits", SP, "found)">>

\* mutant of format_markdown: the placeholder is appended whatever the list
format_markdown_AlwaysPlaceholder(title, cs) ==
    Join(NL, << title, <<>>, NoCommitsLine >>
             \o [i \in 1..Len(cs) |-> <<"-", SP>> \o cs[i]])

format_markdown(title, cs) ==
    LET lines == << title, <<>> >>
    IN  IF cs = <<>> THEN Join(NL, Append(lines, NoCommitsLine))
        ELSE Join(NL, lines \o [i \in 1..Len(cs) |-> <<"-", SP>> \o cs[i]])

\* title_parts of main, joined by " "
ChangelogTitle(since, since_date, until) ==
    Join(SP,
         << <<"##", SP, "Changelog">> >>
         \o (IF Truthy(since) THEN << <<"(since", SP>> \o since \o <<")">> >> ELSE <<>>)
         \o (IF Truthy(since_date)
             THEN << <<"(since", SP>> \o since_date \o <<")">> >> ELSE <<>>)
         \o (IF Truthy(until) THEN << <<"(until", SP>> \o until \o <<")">> >> ELSE <<>>))

\* commits of main: the non-blank lines of git's output, stripped
ParseCommits(output) == StripNonBlank(SplitLines(output))

\* ------------------------------------------------------------- git log
\* What `git log` does with the arguments it is handed: --no-merges drops the
\* merge commits, --max-count=<n> keeps the first n (a negative n is no limit),
\* and --pretty=format:%h %s prints one "<hash> <subject>" line per commit.
RECURSIVE DropMerges(_)
DropMerges(hs) ==
    IF hs = <<>> THEN <<>>
    ELSE IF Head(hs).merge THEN DropMerges(Tail(hs))
    ELSE <<Head(hs)>> \o DropMerges(Tail(hs))

IsMaxCountArg(a) == Len(a) = 2 /\ a[1] = "--max-count="

\* The number n of the --max-count=<n> argument.
MaxCountOf(largs) ==
    LET i == CHOOSE k \in 1..Len(largs) : IsMaxCountArg(largs[k])
    IN  CHOOSE n \in MaxValues : ToString(n) = largs[i][2]

GitSelect(largs, hs) ==
    LET kept == IF \E k \in 1..Len(largs) : largs[k] = NoMergesArg
                THEN DropMerges(hs) ELSE hs
    IN  IF \E k \in 1..Len(largs) : IsMaxCountArg(largs[k])
        THEN LET n == MaxCountOf(largs)
             IN  IF n < 0 \/ n >= Len(kept) THEN kept ELSE SubSeq(kept, 1, n)
        ELSE kept

PrettyLine(c) == <<c.h, SP>> \o c.s

GitLogStdout(largs, hs) ==
    LET sel == GitSelect(largs, hs)
    IN  Join(NL, [i \in 1..Len(sel) |-> PrettyLine(sel[i])])

\* run_git: the command's stdout, stripped
run_git_log(largs, hs) == Strip(GitLogStdout(largs, hs))


\* ---------------------------------------- build_research_report.py: input
\* A JSON value inside the top-level array: an object with the five keys the
\* code reads (each absent, null or a string), or a value that is no object.
Titles == {Absent, <<"RFC", SP, "9110">>}
Urls == {Absent, <<"https://e.org">>}
SrcDates == {<<>>, <<"2026-01-01">>}
Notes == {Absent, <<"key", SP, "source">>}
SrcTypes == {<<>>, <<"primary">>}

JsonObjects ==
    [kind : {"object"}, title : Titles, url : Urls, date : SrcDates,
     notes : Notes, type : SrcTypes]

\* {"title": "", "date": "2026-01-01", "type": ""}
EmptyTitled ==
    [kind |-> "object", title |-> <<>>, url |-> Absent, date |-> <<"2026-01-01">>,
     notes |-> Absent, type |-> <<>>]

\* {"title": null, "date": "", "type": ""}
NullTitled ==
    [kind |-> "object", title |-> None, url |-> Absent, date |-> <<>>,
     notes |-> Absent, type |-> <<>>]

\* 1
JsonNumber ==
    [kind |-> "number", title |-> Absent, url |-> Absent, date |-> Absent,
     notes |-> Absent, type |-> Absent]

JsonItems == JsonObjects \cup {EmptyTitled, NullTitled, JsonNumber}

\* The file --input names: missing, not JSON, or a JSON document whose
\* top-level value has the given kind (items are the elements of an array).
TopKinds == {"object", "string", "number", "boolean", "null"}

InputFiles ==
    { [state |-> "missing", kind |-> "none", items |-> <<>>],
      [state |-> "garbled", kind |-> "none", items |-> <<>>] }
    \cup [state : {"json"}, kind : TopKinds, items : {<<>>}]
    \cup [state : {"json"}, kind : {"array"}, items : SeqsUpTo(JsonItems, MaxSources)]

Topics == {<<"HTTP", SP, "caching">>}

\* ---------------------------------------- build_research_report.py: functions
\* item.get(key, default)
Get(item, key, default) == IF item[key] = Absent THEN default ELSE item[key]

\* Python truthiness of a JSON string or null
NonEmpty(v) == v # None /\ v # <<>>

NoSourcesLine == <<"-", SP, "(No", SP, "sources", SP, "provided)">>
Untitled == <<"(untitled)">>

\* item.get raises AttributeError on a value that is no dict; " ".join raises
\* TypeError on a title that is no str.
SourceError(item) ==
    IF item.kind # "object" THEN <<"AttributeError">>
    ELSE IF Get(item, "title", Untitled) = None THEN <<"TypeError">>
    ELSE <<>>

\* mutant of format_source: (type) appended before [date]
format_source_TypeBeforeDate(item) ==
    LET title == Get(item, "title", Untitled)
        url == Get(item, "url", <<>>)
        date == Get(item, "date", <<>>)
        notes == Get(item, "notes", <<>>)
        source_type == Get(item, "type", <<>>)
        parts == <<title>>
                 \o (IF NonEmpty(source_type)
                     THEN << <<"(">> \o source_type \o <<")">> >> ELSE <<>>)
                 \o (IF NonEmpty(date) THEN << <<"[">> \o date \o <<"]">> >> ELSE <<>>)
    IN  <<"-", SP>> \o Join(SP, parts)
        \o (IF NonEmpty(url) THEN <<NL, SP, SP, "-", SP, "URL:", SP>> \o url ELSE <<>>)
        \o (IF NonEmpty(notes)
            THEN <<NL, SP, SP, "-", SP, "Notes:", SP>> \o notes ELSE <<>>)

\* the body of the loop of format_sources for one item
format_source(item) ==
    LET title == Get(item, "title", Untitled)
        url == Get(item, "url", <<>>)
        date == Get(item, "date", <<>>)
        notes == Get(item, "notes", <<>>)
        source_type == Get(item, "type", <<>>)
        parts == <<title>>
                 \o (IF NonEmpty(date) THEN << <<"[">> \o date \o <<"]">> >> ELSE <<>>)
                 \o (IF NonEmpty(source_type)
                     THEN << <<"(">> \o source_type \o <<")">> >> ELSE <<>>)
    IN  <<"-", SP>> \o Join(SP, parts)
        \o (IF NonEmpty(url) THEN <<NL, SP, SP, "-", SP, "URL:", SP>> \o url ELSE <<>>)
        \o (IF NonEmpty(notes)
            THEN <<NL, SP, SP, "-", SP, "Notes:", SP>> \o notes ELSE <<>>)

format_sources(srcs) ==
    IF srcs = <<>> THEN NoSourcesLine
    ELSE Join(NL, [i \in 1..Len(srcs) |-> format_source(srcs[i])])

\* the first exception format_sources raises on srcs, <<>> when it raises none
FormatSourcesError(srcs) ==
    IF \A i \in 1..Len(srcs) : SourceError(srcs[i]) = <<>> THEN <<>>
    ELSE SourceError(srcs[CHOOSE i \in 1..Len(srcs) :
                            /\ SourceError(srcs[i]) # <<>>
                            /\ \A j \in 1..(i - 1) : SourceError(srcs[j]) = <<>>])

SourcesHeading == <<"##", SP, "Sources">>

build_report(topic, srcs) ==
    Join(NL,
         << <<"#", SP, "Research", SP, "Report:", SP>> \o topic,
            <<>>,
            <<"##", SP, "Summary">>,
            <<"-", SP, "...">>,
            <<"-", SP, "...">>,
            <<>>,
            <<"##", SP, "Key", SP, "facts", SP, "(with", SP, "dates)">>,
            <<"-", SP, "...">>,
            <<>>,
            <<"##", SP, "Contradictions", SP, "/", SP, "uncertainties">>,
            <<"-", SP, "...">>,
            <<>>,
            SourcesHeading,
            format_sources(srcs),
            <<>> >>)


\* ------------------------------------------------------------------ state
VARIABLES
    util,            \* which script runs: "changelog" or "report"
    args,            \* the parsed command line (parser.parse_args())
    history,         \* the repository's commits in the requested range
    inputFile,       \* the file --input names
    pc,              \* position in main
    since_ref,       \* main's local since_ref
    git_range,       \* main's local git_range
    log_args,        \* main's local log_args
    commits,         \* main's local commits
    markdown,        \* main's local markdown (changelog)
    sources,         \* main's local sources (report)
    report,          \* main's local report
    describeResult,  \* outcome of `git describe`: notrun, ok, failed, nogit
    logResult,       \* outcome of `git log`: notrun, ok, failed, nogit
    loadResult,      \* outcome of load_sources: notrun, ok, nofile, badjson, notlist
    stdout,          \* text printed to stdout
    printed,         \* number of print calls
    stderr,          \* text written to stderr
    fileOpens,       \* number of times the --output file was opened for writing
    fileText,        \* content of the --output file
    status           \* exit status, meaningful once pc = "done"

vars == <<util, args, history, inputFile, pc, since_ref, git_range, log_args,
          commits, markdown, sources, report, describeResult, logResult,
          loadResult, stdout, printed, stderr, fileOpens, fileText, status>>

locals == <<since_ref, git_range, log_args, commits, markdown, sources, report>>
env == <<util, args, history, inputFile>>
outcomes == <<describeResult, logResult, loadResult>>
outputs == <<stdout, printed, fileOpens, fileText>>

ChangelogArgs ==
    [since_ref : Refs, until_ref : UntilRefs, since_date : Dates, max : MaxValues,
     include_merges : BOOLEAN, output : OutPaths, topic : {None}, input : {None}]

ReportArgs ==
    [since_ref : {None}, until_ref : {None}, since_date : {None}, max : {DefaultMax},
     include_merges : {FALSE}, output : OutPaths, topic : Topics,
     input : {<<"sources.json">>}]

NoInput == [state |-> "missing", kind |-> "none", items |-> <<>>]

Init ==
    /\ \/ /\ util = "changelog"
          /\ args \in ChangelogArgs
          /\ history \in Histories
          /\ inputFile = NoInput
       \/ /\ util = "report"
          /\ args \in ReportArgs
          /\ history = <<>>
          /\ inputFile \in InputFiles
    /\ pc = "parsed"
    /\ since_ref = None
    /\ git_range = None
    /\ log_args = <<>>
    /\ commits = <<>>
    /\ markdown = <<>>
    /\ sources = <<>>
    /\ report = <<>>
    /\ describeResult = "notrun"
    /\ logResult = "notrun"
    /\ loadResult = "notrun"
    /\ stdout = <<>>
    /\ printed = 0
    /\ stderr = <<>>
    /\ fileOpens = 0
    /\ fileText = <<>>
    /\ status = 0

\* An exception nothing catches: the interpreter prints the traceback to stderr
\* and the process exits with status 1.
Raise(exc) ==
    /\ stderr' = stderr \o <<"Traceback", NL>> \o exc \o <<NL>>
    /\ status' = 1
    /\ pc' = "done"

\* `return 0` of main
Return0 ==
    /\ status' = 0
    /\ pc' = "done"

\* ------------------------------------------- generate_changelog.py: main
NeedsLastTag == ~Truthy(args.since_ref) /\ ~Truthy(args.since_date)

\* lines 89-91, the tag lookup not taken
KeepSinceRef ==
    /\ util = "changelog" /\ pc = "parsed"
    /\ ~NeedsLastTag
    /\ since_ref' = args.since_ref
    /\ pc' = "tagged"
    /\ UNCHANGED <<env, git_range, log_args, commits, markdown, sources, report,
                   outcomes, outputs, stderr, status>>

DescribeStdouts == {<<>>, LastTag \o <<NL>>}

\* get_last_tag, `git describe` exits 0
GetLastTagOk ==
    /\ util = "changelog" /\ pc = "parsed"
    /\ NeedsLastTag
    /\ \E out \in DescribeStdouts :
          LET tag == Strip(out)
          IN  since_ref' = IF tag # <<>> THEN tag ELSE None
    /\ describeResult' = "ok"
    /\ pc' = "tagged"
    /\ UNCHANGED <<env, git_range, log_args, commits, markdown, sources, report,
                   logResult, loadResult, outputs, stderr, status>>

\* get_last_tag, `git describe` exits non-zero: CalledProcessError is caught
GetLastTagFail ==
    /\ util = "changelog" /\ pc = "parsed"
    /\ NeedsLastTag
    /\ since_ref' = None
    /\ describeResult' = "failed"
    /\ pc' = "tagged"
    /\ UNCHANGED <<env, git_range, log_args, commits, markdown, sources, report,
                   logResult, loadResult, outputs, stderr, status>>

\* get_last_tag, no git executable: FileNotFoundError is not caught
GetLastTagNoGit ==
    /\ util = "changelog" /\ pc = "parsed"
    /\ NeedsLastTag
    /\ describeResult' = "nogit"
    /\ Raise(<<"FileNotFoundError">>)
    /\ UNCHANGED <<env, locals, logResult, loadResult, outputs>>

\* lines 93-94
BuildArgs ==
    /\ util = "changelog" /\ pc = "tagged"
    /\ git_range' = build_range(since_ref, args.until_ref)
    /\ log_args' = build_log_args(git_range', args.since_date, args.max,
                                  args.include_merges)
    /\ pc' = "built"
    /\ UNCHANGED <<env, since_ref, commits, markdown, sources, report, outcomes,
                   outputs, stderr, status>>

\* lines 96-97 and 102, `git log` exits 0
GitLogOk ==
    /\ util = "changelog" /\ pc = "built"
    /\ commits' = ParseCommits(run_git_log(log_args, history))
    /\ logResult' = "ok"
    /\ pc' = "fetched"
    /\ UNCHANGED <<env, since_ref, git_range, log_args, markdown, sources, report,
                   describeResult, loadResult, outputs, stderr, status>>

GitStderrs == {<<>>, <<"fatal:", SP, "bad", SP, "revision", NL>>}
GitLogFailedMsg == <<"Failed", SP, "to", SP, "run", SP, "git", SP, "log.", NL>>

\* mutant of GitLogFail: the handler reports the failure but returns 0
GitLogFail_Return0 ==
    /\ util = "changelog" /\ pc = "built"
    /\ \E err \in GitStderrs :
          stderr' = stderr \o (IF err # <<>> THEN err ELSE GitLogFailedMsg)
    /\ logResult' = "failed"
    /\ status' = 0
    /\ pc' = "done"
    /\ UNCHANGED <<env, locals, describeResult, loadResult, outputs>>

\* mutant of GitLogFail: the --output file was opened before git log ran
GitLogFail_FileOpened ==
    /\ util = "changelog" /\ pc = "built"
    /\ \E err \in GitStderrs :
          stderr' = stderr \o (IF err # <<>> THEN err ELSE GitLogFailedMsg)
    /\ logResult' = "failed"
    /\ status' = 1
    /\ pc' = "done"
    /\ fileOpens' = IF Truthy(args.output) THEN fileOpens + 1 ELSE fileOpens
    /\ UNCHANGED <<env, locals, describeResult, loadResult, stdout, printed, fileText>>

\* lines 98-100, `git log` exits non-zero
GitLogFail ==
    /\ util = "changelog" /\ pc = "built"
    /\ \E err \in GitStderrs :
          stderr' = stderr \o (IF err # <<>> THEN err ELSE GitLogFailedMsg)
    /\ logResult' = "failed"
    /\ status' = 1
    /\ pc' = "done"
    /\ UNCHANGED <<env, locals, describeResult, loadResult, outputs>>

\* line 97, no git executable (only when `git describe` was not run before)
GitLogNoGit ==
    /\ util = "changelog" /\ pc = "built"
    /\ describeResult = "notrun"
    /\ logResult' = "nogit"
    /\ Raise(<<"FileNotFoundError">>)
    /\ UNCHANGED <<env, locals, describeResult, loadResult, outputs>>

\* lines 104-113
FormatChangelog ==
    /\ util = "changelog" /\ pc = "fetched"
    /\ markdown' = format_markdown(
                       ChangelogTitle(since_ref, args.since_date, args.until_ref),
                       commits)
    /\ pc' = "formatted"
    /\ UNCHANGED <<env, since_ref, git_range, log_args, commits, sources, report,
                   outcomes, outputs, stderr, status>>

\* mutant of ChangelogWriteFile: the else is missing, the text is printed too
ChangelogWriteFile_AlsoPrints ==
    /\ util = "changelog" /\ pc = "formatted"
    /\ Truthy(args.output)
    /\ fileOpens' = fileOpens + 1
    /\ fileText' = markdown \o <<NL>>
    /\ stdout' = stdout \o markdown \o <<NL>>
    /\ printed' = printed + 1
    /\ Return0
    /\ UNCHANGED <<env, locals, outcomes, stderr>>

\* lines 115-117 and 121
ChangelogWriteFile ==
    /\ util = "changelog" /\ pc = "formatted"
    /\ Truthy(args.output)
    /\ fileOpens' = fileOpens + 1
    /\ fileText' = markdown \o <<NL>>
    /\ Return0
    /\ UNCHANGED <<env, locals, outcomes, stdout, printed, stderr>>

\* line 116, open() fails (no such directory, no permission): OSError
ChangelogOpenFail ==
    /\ util = "changelog" /\ pc = "formatted"
    /\ Truthy(args.output)
    /\ Raise(<<"OSError">>)
    /\ UNCHANGED <<env, locals, outcomes, outputs>>

\* lines 118-121
ChangelogPrint ==
    /\ util = "changelog" /\ pc = "formatted"
    /\ ~Truthy(args.output)
    /\ stdout' = stdout \o markdown \o <<NL>>
    /\ printed' = printed + 1
    /\ Return0
    /\ UNCHANGED <<env, locals, outcomes, fileOpens, fileText, stderr>>


\* ---------------------------------------- build_research_report.py: main
NotListMsg ==
    <<"ValueError:", SP, "Input", SP, "JSON", SP, "must", SP, "be", SP, "a", SP,
      "list", SP, "of", SP, "source", SP, "objects">>

\* load_sources returns: the top-level value is a list
LoadOk ==
    /\ util = "report" /\ pc = "parsed"
    /\ inputFile.state = "json" /\ inputFile.kind = "array"
    /\ sources' = inputFile.items
    /\ loadResult' = "ok"
    /\ pc' = "loaded"
    /\ UNCHANGED <<env, since_ref, git_range, log_args, commits, markdown, report,
                   describeResult, logResult, outputs, stderr, status>>

\* line 22, open() of a missing file: FileNotFoundError is not caught
LoadNoFile ==
    /\ util = "report" /\ pc = "parsed"
    /\ inputFile.state = "missing"
    /\ loadResult' = "nofile"
    /\ Raise(<<"FileNotFoundError">>)
    /\ UNCHANGED <<env, locals, describeResult, logResult, outputs>>

\* line 23, json.load of a file that is no JSON: JSONDecodeError is not caught
LoadBadJson ==
    /\ util = "report" /\ pc = "parsed"
    /\ inputFile.state = "garbled"
    /\ loadResult' = "badjson"
    /\ Raise(<<"JSONDecodeError">>)
    /\ UNCHANGED <<env, locals, describeResult, logResult, outputs>>

\* lines 24-25, the top-level value is no list
LoadNotList ==
    /\ util = "report" /\ pc = "parsed"
    /\ inputFile.state = "json" /\ inputFile.kind # "array"
    /\ loadResult' = "notlist"
    /\ Raise(NotListMsg)
    /\ UNCHANGED <<env, locals, describeResult, logResult, outputs>>

\* line 81, format_sources raises nothing
BuildReport ==
    /\ util = "report" /\ pc = "loaded"
    /\ FormatSourcesError(sources) = <<>>
    /\ report' = build_report(args.topic, sources)
    /\ pc' = "formatted"
    /\ UNCHANGED <<env, since_ref, git_range, log_args, commits, markdown, sources,
                   outcomes, outputs, stderr, status>>

\* line 81, format_sources raises (lines 34 and 44); nothing catches it
BuildReportRaise ==
    /\ util = "report" /\ pc = "loaded"
    /\ FormatSourcesError(sources) # <<>>
    /\ Raise(FormatSourcesError(sources))
    /\ UNCHANGED <<env, locals, outcomes, outputs>>

\* lines 83-85 and 88
ReportWriteFile ==
    /\ util = "report" /\ pc = "formatted"
    /\ Truthy(args.output)
    /\ fileOpens' = fileOpens + 1
    /\ fileText' = report
    /\ Return0
    /\ UNCHANGED <<env, locals, outcomes, stdout, printed, stderr>>

\* line 84, open() fails: OSError
ReportOpenFail ==
    /\ util = "report" /\ pc = "formatted"
    /\ Truthy(args.output)
    /\ Raise(<<"OSError">>)
    /\ UNCHANGED <<env, locals, outcomes, outputs>>

\* lines 86-88
ReportPrint ==
    /\ util = "report" /\ pc = "formatted"
    /\ ~Truthy(args.output)
    /\ stdout' = stdout \o report \o <<NL>>
    /\ printed' = printed + 1
    /\ Return0
    /\ UNCHANGED <<env, locals, outcomes, fileOpens, fileText, stderr>>

Next ==
    \/ KeepSinceRef
    \/ GetLastTagOk
    \/ GetLastTagFail
    \/ GetLastTagNoGit
    \/ BuildArgs
    \/ GitLogOk
    \/ GitLogFail
    \/ GitLogNoGit
    \/ FormatChangelog
    \/ ChangelogWriteFile
    \/ ChangelogOpenFail
    \/ ChangelogPrint
    \/ LoadOk
    \/ LoadNoFile
    \/ LoadBadJson
    \/ LoadNotList
    \/ BuildReport
    \/ BuildReportRaise
    \/ ReportWriteFile
    \/ ReportOpenFail
    \/ ReportPrint

Spec == Init /\ [][Next]_vars


\* ================================================================= claims
Done == pc = "done"
Succeeded == pc = "done" /\ status = 0
Reported == status # 0 /\ stderr # <<>>

\* C1 as stated: every failure of git (describe or log, non-zero exit or no
\* executable) and every missing input file ends the run with a report on
\* stderr and a non-zero exit status.
C1_EveryFailureExitsNonZero ==
    (Done /\ (\/ describeResult \in {"failed", "nogit"}
              \/ logResult \in {"failed", "nogit"}
              \/ loadResult = "nofile"))
        => Reported

\* C1 amended: a failing `git log`, a missing git executable and a missing
\* input file end the run at once, reported on stderr, with a non-zero exit
\* status; a `git describe` that exits non-zero is taken as "no tag" (since_ref
\* is None) and does not by itself fail the run.
C1_FatalFailureExitsNonZero ==
    /\ (\/ describeResult = "nogit"
        \/ logResult \in {"failed", "nogit"}
        \/ loadResult = "nofile")
           => (Done /\ Reported)
    /\ (describeResult = "failed" /\ logResult = "notrun") => (~Done /\ since_ref = None)

C1_Witness == Done /\ logResult = "failed" /\ status = 1 /\ describeResult = "failed"

\* C2: the output is written at most once, as the last step, and only after
\* the fetch/load step succeeded; when `git log` or load_sources fails the
\* --output file is never opened and nothing is printed.
FetchOk == IF util = "changelog" THEN logResult = "ok" ELSE loadResult = "ok"
FetchFailed ==
    \/ logResult \in {"failed", "nogit"}
    \/ loadResult \in {"nofile", "badjson", "notlist"}

C2_WriteOnceAfterFetch ==
    /\ printed + fileOpens <= 1
    /\ (printed + fileOpens > 0 \/ stdout # <<>> \/ fileText # <<>>)
           => (FetchOk /\ Done)
    /\ pc = "formatted" => FetchOk
    /\ FetchFailed => (fileOpens = 0 /\ fileText = <<>> /\ printed = 0 /\ stdout = <<>>)

C2_Witness == Done /\ FetchFailed /\ Truthy(args.output) /\ fileOpens = 0

\* C3: build_range gives "<since>..<until>" when both refs are present,
\* "<since>..HEAD" for since alone, "<until>" for until alone and None for
\* neither, an empty-string ref counting as absent.
Present(r) == r \notin {None, <<>>}
\* lines 93-94 of main have run
Built == pc = "built" \/ logResult # "notrun"

C3_BuildRange ==
    Built =>
        LET s == since_ref
            u == args.until_ref
        IN  /\ (Present(s) /\ Present(u)) => git_range = s \o <<"..">> \o u
            /\ (Present(s) /\ ~Present(u)) => git_range = s \o <<"..", "HEAD">>
            /\ (~Present(s) /\ Present(u)) => git_range = u
            /\ (~Present(s) /\ ~Present(u)) => git_range = None

C3_Witness ==
    /\ pc = "built" /\ since_ref = <<>> /\ args.until_ref = <<"v2.0.0">>
    /\ git_range = <<"v2.0.0">>

\* C4 as stated: for every integer --max a successful changelog run lists at
\* most --max commits (none at all when --max is below 1), and git log gets
\* exactly one --max-count=<max> argument.
C4_AtMostMaxCommits ==
    (util = "changelog" /\ Succeeded) =>
        /\ Len(commits) <= (IF args.max < 0 THEN 0 ELSE args.max)
        /\ Cardinality({i \in 1..Len(log_args) : log_args[i] = MaxCountArg(args.max)}) = 1

\* C5 as stated: a successful run writes to the --output file whenever the
\* option is given, and to stdout only when it is not given.
FileOnly(text) == fileOpens = 1 /\ fileText = text /\ printed = 0 /\ stdout = <<>>
StdoutOnly(text) == printed = 1 /\ stdout = text /\ fileOpens = 0 /\ fileText = <<>>
Rendered == IF util = "changelog" THEN markdown ELSE report
\* what the two scripts write: the changelog ends its file with a newline
FileText == IF util = "changelog" THEN markdown \o <<NL>> ELSE report

C5_OutputGivenWritesFile ==
    Succeeded =>
        /\ args.output # None => FileOnly(FileText)
        /\ args.output = None => StdoutOnly(Rendered \o <<NL>>)

\* C5 amended: a successful run writes the rendered Markdown to exactly one
\* destination: the --output file when the option has a non-empty value, and
\* stdout when the option is absent or is the empty string; a run that wrote
\* returns exit status 0.
C5_OneDestination ==
    /\ Succeeded =>
        /\ Rendered # <<>>
        /\ Truthy(args.output) => FileOnly(FileText)
        /\ ~Truthy(args.output) => StdoutOnly(Rendered \o <<NL>>)
    /\ (printed + fileOpens > 0) => Succeeded

C5_Witness == Succeeded /\ args.output = <<>> /\ printed = 1 /\ fileOpens = 0


\* C6: build_log_args puts --no-merges in the list exactly when include_merges
\* is false, whatever the other options; the list starts with log and ends
\* with the --pretty argument; no merge commit is listed without
\* --include-merges.
MergeLines == {Strip(PrettyLine(c)) : c \in {m \in Commits : m.merge}}

RenderErrors == {<<"AttributeError">>, <<"TypeError">>}

C7_AcceptedInputRenders ==
    /\ (util = "report" /\ pc # "parsed" /\ inputFile.state = "json") =>
          /\ loadResult = "ok" <=> inputFile.kind = "array"
          /\ inputFile.kind # "array" =>
                (loadResult = "notlist" /\ stderr = <<"Traceback", NL>> \o NotListMsg \o <<NL>>)
    /\ (loadResult = "ok" /\ Done) =>
          /\ report # <<>>
          /\ \A e \in RenderErrors : stderr # <<"Traceback", NL>> \o e \o <<NL>>

\* C8: format_markdown yields the title line, one empty line, then one
\* "- <commit>" line per commit in git's order, nothing dropped, duplicated or
\* reordered; an empty list gives the single line "- (No commits found)",
\* which never stands beside a commit line.
Formatted == util = "changelog" /\ (pc = "formatted" \/ (Done /\ logResult = "ok"))

C8_MarkdownList ==
    Formatted =>
        LET L == Split(markdown, NL)
            sel == GitSelect(log_args, history)
        IN  /\ Len(L) >= 3
            /\ L[1] = ChangelogTitle(since_ref, args.since_date, args.until_ref)
            /\ L[1][1] = "##"
            /\ L[2] = <<>>
            /\ Len(commits) = Len(sel)
            /\ \A i \in 1..Len(sel) : commits[i] = Strip(PrettyLine(sel[i]))
            /\ IF commits = <<>>
               THEN L = <<L[1], <<>>, NoCommitsLine>>
               ELSE /\ Len(L) = 2 + Len(commits)
                    /\ \A i \in 1..Len(commits) : L[2 + i] = <<"-", SP>> \o commits[i]
                    /\ \A i \in 3..Len(L) : L[i] # NoCommitsLine

C8_Witness ==
    /\ Formatted /\ Len(commits) = 2 /\ commits[1] # commits[2]
    /\ Len(Split(markdown, NL)) = 4

\* C9: format_sources gives one top-level bullet per source in input order
\* ("- (No sources provided)" for none): the title or (untitled), then [date]
\* and (type) when non-empty, then a URL: and a Notes: sub-line, each only
\* when non-empty; build_report puts it right under "## Sources", the last
\* section after Summary, Key facts and Contradictions.
BulletLines(item) ==
    LET field(k) == Get(item, k, <<>>)
    IN  << <<"-", SP>> \o Get(item, "title", Untitled)
             \o (IF field("date") # <<>> THEN <<SP, "[">> \o field("date") \o <<"]">> ELSE <<>>)
             \o (IF field("type") # <<>> THEN <<SP, "(">> \o field("type") \o <<")">> ELSE <<>>) >>
        \o (IF field("url") # <<>>
            THEN << <<SP, SP, "-", SP, "URL:", SP>> \o field("url") >> ELSE <<>>)
        \o (IF field("notes") # <<>>
            THEN << <<SP, SP, "-", SP, "Notes:", SP>> \o field("notes") >> ELSE <<>>)

RECURSIVE AllBulletLines(_)
AllBulletLines(srcs) ==
    IF srcs = <<>> THEN <<>> ELSE BulletLines(Head(srcs)) \o AllBulletLines(Tail(srcs))

IsHeading(line) == line # <<>> /\ line[1] = "##"
IsTopBullet(line) == Len(line) >= 2 /\ line[1] = "-" /\ line[2] = SP

ReportBuilt == util = "report" /\ report # <<>>

C9_SourcesSection ==
    ReportBuilt =>
        LET L == Split(report, NL)
            body == SubSeq(L, 14, Len(L) - 1)
        IN  /\ {i \in 1..Len(L) : IsHeading(L[i])} = {3, 7, 10, 13}
            /\ L[3][3] = "Summary" /\ L[7][3] = "Key" /\ L[10][3] = "Contradictions"
            /\ L[13] = SourcesHeading
            /\ L[Len(L)] = <<>>
            /\ body = IF sources = <<>> THEN <<NoSourcesLine>>
                      ELSE AllBulletLines(sources)
            /\ Cardinality({i \in 1..Len(body) : IsTopBullet(body[i])})
                   = IF sources = <<>> THEN 1 ELSE Len(sources)

C9_Witness ==
    /\ ReportBuilt /\ Len(sources) = 2
    /\ sources[1].title = Absent /\ sources[1].url # Absent /\ sources[1].notes # Absent
    /\ sources[2].title # Absent /\ sources[2].date # <<>> /\ sources[2].type # <<>>

====
